---- MODULE Spec2Model ----
(***************************************************************************)
(* HelloHealth appointment assistant: the intake and scheduling agents of  *)
(* agent.py and the validators, availability resolver and notifier of      *)
(* utils.py.                                                               *)
(*                                                                         *)
(* Representation.  A "HH:MM" string is the pair <<hour, minute>>, a       *)
(* "MM-DD-YYYY" string the triple <<month, day, year>>, a name a sequence  *)
(* of one-character strings, any other text the tuple <<text>>, a bool     *)
(* field the tuple <<b>>.                                                  *)
(* Python's None is the empty tuple, which compares with all of these.     *)
(***************************************************************************)
EXTENDS Integers, Sequences, FiniteSets, TLC

VARIABLES
    agent,           \* per session: the agent whose tools are active
    closed,          \* per session: session.aclose() has completed
    userdata,        \* per session: the PatientInfo of AgentSession.userdata
    heap,            \* AppointmentInfo objects, by reference
    physicians_csv,  \* rows of fakedata/physicians.csv, or "missing"
    emails_txt,      \* lines of emails.txt
    last,            \* the tool call that ran last: what it returned and did
    probe            \* a pure function applied to an input

vars == <<agent, closed, userdata, heap, physicians_csv, emails_txt, last, probe>>

None == <<>>

(***************************************************************************)
(* Bounds of the model.                                                    *)
(***************************************************************************)
MaxSlots == 2          \* slots per physician in the resolver's input rosters
MaxRecipients == 2     \* lines of emails.txt

(***************************************************************************)
(* Program constants.                                                      *)
(***************************************************************************)
MinutesPerHour == 60
HoursPerDay == 24
HalfHour == 30
Accepted == 202

Range(s) == {s[i] : i \in 1..Len(s)}

(***************************************************************************)
(* utils.py: times.                                                        *)
(***************************************************************************)
\* datetime.strptime(s, "%H:%M") followed by hour * 60 + minute
strptime_minutes(time_str) == time_str[1] * MinutesPerHour + time_str[2]

\* num / den rounded to the nearest integer, a tie upwards
round_half_up(num, den) ==
    IF 2 * (num % den) >= den THEN (num \div den) + 1 ELSE num \div den

\* Python's built-in round(num / den): to the nearest integer, a tie to the
\* even one
round(num, den) ==
    LET q == num \div den
        r == num % den
    IN  IF 2 * r < den THEN q
        ELSE IF 2 * r > den THEN q + 1
        ELSE IF q % 2 = 0 THEN q ELSE q + 1

round_to_nearest_half_hour(time_str) ==
    LET minutes == strptime_minutes(time_str)
        rounded == round(minutes, HalfHour) * HalfHour
        new_hour == rounded \div MinutesPerHour
        new_minute == rounded % MinutesPerHour
    IN  <<new_hour % HoursPerDay, new_minute>>

Abs(x) == IF x < 0 THEN 0 - x ELSE x

\* the loop of nearest_time over times[i..], carrying closest and min_diff
\* (a negative min_diff stands for float("inf"))
RECURSIVE nearest_loop(_, _, _, _, _)
nearest_loop(t_minutes, times, i, closest, min_diff) ==
    IF i > Len(times) THEN closest
    ELSE LET diff == Abs(strptime_minutes(times[i]) - t_minutes)
         IN  IF min_diff < 0 \/ diff < min_diff
             THEN nearest_loop(t_minutes, times, i + 1, times[i], diff)
             ELSE nearest_loop(t_minutes, times, i + 1, closest, min_diff)

\* a nearest_time that keeps the last of several equidistant slots
nearest_time_last(target, times) ==
    LET t == strptime_minutes(target)
        D(i) == Abs(strptime_minutes(times[i]) - t)
        best == {i \in 1..Len(times) : \A j \in 1..Len(times) : D(i) <= D(j)}
    IN  IF times = <<>> THEN None
        ELSE times[CHOOSE i \in best : \A j \in best : j <= i]

nearest_time(target, times) ==
    nearest_loop(strptime_minutes(target), times, 1, None, -1)

(***************************************************************************)
(* utils.py: the roster.                                                   *)
(***************************************************************************)
\* position of key in an ordered dict (a sequence of <<key, value>>), 0 if absent
KeyIndex(d, k) ==
    IF \E i \in 1..Len(d) : d[i][1] = k
    THEN CHOOSE i \in 1..Len(d) : d[i][1] = k
    ELSE 0

Keys(d) == [i \in 1..Len(d) |-> d[i][1]]

\* schedule[physician] = times: a new key goes last, a known key keeps its place
DictSet(d, k, v) ==
    IF KeyIndex(d, k) = 0 THEN Append(d, <<k, v>>)
    ELSE [d EXCEPT ![KeyIndex(d, k)] = <<k, v>>]

RECURSIVE load_rows(_, _, _)
load_rows(rows, i, schedule) ==
    IF i > Len(rows) THEN schedule
    ELSE IF rows[i] = <<>> THEN load_rows(rows, i + 1, schedule)
    ELSE load_rows(rows, i + 1, DictSet(schedule, rows[i][1], rows[i][2]))

\* csv is [exists |-> BOOLEAN, rows |-> the rows, each <<name, times>> or <<>>];
\* a missing file is logged and gives the empty schedule
load_physicians(csv) ==
    IF ~csv.exists THEN <<>> ELSE load_rows(csv.rows, 1, <<>>)

\* a get_avaliability that scans the roster for the time as given
get_avaliability_unrounded(csv, time_str, physician) ==
    LET physician_info == load_physicians(csv)
        k == KeyIndex(physician_info, physician)
        hits == {i \in 1..Len(physician_info) :
                    time_str \in Range(physician_info[i][2])}
    IN  IF physician /= None
        THEN IF k = 0 THEN [raise |-> "KeyError"]
             ELSE IF time_str \in Range(physician_info[k][2])
                  THEN [ret |-> <<physician, time_str>>]
                  ELSE [ret |-> <<physician,
                                  nearest_time(time_str, physician_info[k][2])>>]
        ELSE IF hits = {} THEN [ret |-> <<None, None>>]
             ELSE LET first == CHOOSE i \in hits : \A j \in hits : i <= j
                  IN  [ret |-> <<physician_info[first][1], time_str>>]

\* a get_avaliability that scans the roster whether a physician is given or not
get_avaliability_any_physician(csv, time_str, physician) ==
    LET physician_info == load_physicians(csv)
        rounded == round_to_nearest_half_hour(time_str)
        hits == {i \in 1..Len(physician_info) :
                    rounded \in Range(physician_info[i][2])}
    IN  IF physician /= None /\ KeyIndex(physician_info, physician) = 0
        THEN [raise |-> "KeyError"]
        ELSE IF hits = {} THEN [ret |-> <<None, None>>]
        ELSE LET first == CHOOSE i \in hits : \A j \in hits : i <= j
             IN  [ret |-> <<physician_info[first][1], rounded>>]

\* a get_avaliability that reads physician_info.get(physician, [])
get_avaliability_default(csv, time_str, physician) ==
    LET physician_info == load_physicians(csv)
        k == KeyIndex(physician_info, physician)
        times == IF k = 0 THEN <<>> ELSE physician_info[k][2]
        rounded == round_to_nearest_half_hour(time_str)
        hits == {i \in 1..Len(physician_info) :
                    rounded \in Range(physician_info[i][2])}
    IN  IF physician /= None
        THEN IF time_str \in Range(times)
             THEN [ret |-> <<physician, time_str>>]
             ELSE [ret |-> <<physician, nearest_time(time_str, times)>>]
        ELSE IF hits = {} THEN [ret |-> <<None, None>>]
             ELSE LET first == CHOOSE i \in hits : \A j \in hits : i <= j
                  IN  [ret |-> <<physician_info[first][1], rounded>>]

\* the result is [ret |-> <<physician, time>>] or [raise |-> exception];
\* strptime of None raises TypeError
get_avaliability(csv, time_str, physician) ==
    LET physician_info == load_physicians(csv)
        k == KeyIndex(physician_info, physician)
        rounded == round_to_nearest_half_hour(time_str)
        hits == {i \in 1..Len(physician_info) :
                    rounded \in Range(physician_info[i][2])}
    IN  IF physician /= None
        THEN IF k = 0 THEN [raise |-> "KeyError"]
             ELSE IF time_str \in Range(physician_info[k][2])
                  THEN [ret |-> <<physician, time_str>>]
                  ELSE IF time_str = None THEN [raise |-> "TypeError"]
                  ELSE [ret |-> <<physician,
                                  nearest_time(time_str, physician_info[k][2])>>]
        ELSE IF time_str = None THEN [raise |-> "TypeError"]
             ELSE IF hits = {} THEN [ret |-> <<None, None>>]
             ELSE LET first == CHOOSE i \in hits : \A j \in hits : i <= j
                  IN  [ret |-> <<physician_info[first][1], rounded>>]

(***************************************************************************)
(* utils.py: names.                                                        *)
(***************************************************************************)
UpperLetters == <<"A","B","C","D","E","F","G","H","I","J","K","L","M",
                  "N","O","P","Q","R","S","T","U","V","W","X","Y","Z">>
LowerLetters == <<"a","b","c","d","e","f","g","h","i","j","k","l","m",
                  "n","o","p","q","r","s","t","u","v","w","x","y","z">>

IsUpper(c) == c \in Range(UpperLetters)
IsLetter(c) == c \in Range(UpperLetters) \cup Range(LowerLetters)
IsSpace(c) == c = " "

\* str.lower()
lower(s) ==
    [i \in 1..Len(s) |->
        IF IsUpper(s[i])
        THEN LowerLetters[CHOOSE k \in 1..Len(UpperLetters) : UpperLetters[k] = s[i]]
        ELSE s[i]]

\* x in y, for strings
IsSubstring(x, y) ==
    \E i \in 0..(Len(y) - Len(x)) : SubSeq(y, i + 1, i + Len(x)) = x

\* str.strip()
strip(s) ==
    LET keep == {i \in 1..Len(s) : ~IsSpace(s[i])}
    IN  IF keep = {} THEN <<>>
        ELSE SubSeq(s, CHOOSE i \in keep : \A j \in keep : i <= j,
                       CHOOSE i \in keep : \A j \in keep : j <= i)

\* [a-zA-Z]* at position i: how many characters it matches
LetterRun(s, i) ==
    LET stops == {j \in i..Len(s) : ~IsLetter(s[j])}
    IN  IF i > Len(s) THEN 0
        ELSE IF stops = {} THEN Len(s) - i + 1
        ELSE (CHOOSE j \in stops : \A k \in stops : j <= k) - i

\* \s* at position i: how many characters it matches
SpaceRun(s, i) ==
    LET stops == {j \in i..Len(s) : ~IsSpace(s[j])}
    IN  IF i > Len(s) THEN 0
        ELSE IF stops = {} THEN Len(s) - i + 1
        ELSE (CHOOSE j \in stops : \A k \in stops : j <= k) - i

\* [A-Z][a-zA-Z]+ at position i: the position after the match, 0 if none
MatchWord(s, i) ==
    IF i <= Len(s) /\ IsUpper(s[i]) /\ LetterRun(s, i) >= 2
    THEN i + LetterRun(s, i)
    ELSE 0

\* (?:\s+[A-Z][a-zA-Z]+)* from position e on: the position after the match
RECURSIVE MatchMoreWords(_, _)
MatchMoreWords(s, e) ==
    LET spaces == SpaceRun(s, e)
        next == MatchWord(s, e + spaces)
    IN  IF spaces >= 1 /\ next /= 0 THEN MatchMoreWords(s, next) ELSE e

\* the capture group matched at position i: <<>> if the pattern fails there
MatchGroup(s, i) ==
    IF MatchWord(s, i) = 0 THEN <<>>
    ELSE SubSeq(s, i, MatchMoreWords(s, MatchWord(s, i)) - 1)

\* (?:Dr\.?\s+)? : the position after the prefix, 0 if it does not match
MatchPrefix(s) ==
    LET dot == IF Len(s) >= 3 /\ s[3] = "." THEN 4 ELSE 3
        spaces == SpaceRun(s, dot)
    IN  IF Len(s) >= 2 /\ s[1] = "D" /\ s[2] = "r" /\ spaces >= 1
        THEN dot + spaces
        ELSE 0

normalize_name(name) ==
    LET s == strip(name)
        p == MatchPrefix(s)
    IN  IF p /= 0 /\ MatchGroup(s, p) /= <<>> THEN MatchGroup(s, p)
        ELSE IF MatchGroup(s, 1) /= <<>> THEN MatchGroup(s, 1)
        ELSE s

\* <<success, names>>: the first roster name that contains the cleaned name,
\* or all roster names
verify_physician(csv, physician) ==
    LET physician_info == load_physicians(csv)
        cleaned_name == normalize_name(physician)
        found == {i \in 1..Len(physician_info) :
                    IsSubstring(lower(cleaned_name), lower(physician_info[i][1]))}
    IN  IF found /= {}
        THEN <<TRUE, <<physician_info[CHOOSE i \in found : \A j \in found : i <= j][1]>>>>
        ELSE <<FALSE, Keys(physician_info)>>

(***************************************************************************)
(* utils.py: dates, times, phone numbers and email addresses.  The parsers *)
(* are libraries: an input is given with what its parser makes of it.      *)
(*   date or time: [text, dt]     dt = dateparser.parse(text), a           *)
(*                                <<year, month, day, hour, minute>> or None *)
(*   phone:        [text, intl]   intl = the international format of a     *)
(*                                valid number, None for any other text    *)
(*   email:        [text, valid]  valid = validate_email accepts text      *)
(***************************************************************************)
to_date_string(date_str) ==
    IF date_str.dt = None THEN [raise |-> "ValueError"]
    ELSE [ret |-> <<date_str.dt[2], date_str.dt[3], date_str.dt[1]>>]

to_time_string(date_str) ==
    IF date_str.dt = None THEN [raise |-> "ValueError"]
    ELSE [ret |-> <<date_str.dt[4], date_str.dt[5]>>]

\* the value of awaiting verify_phone(phone)
verify_phone(phone) == phone.intl

\* the value of awaiting verify_email(email)
verify_email(email) == email.valid

\* verify_phone and verify_email are async def: a call that is not awaited
\* returns a coroutine object, which is truthy and is not the awaited value
Coroutine(fn, arg) == <<"coroutine", fn, arg>>

\* of a str or None
Truthy(v) == v /= None

(***************************************************************************)
(* agent.py: the records.                                                  *)
(***************************************************************************)
AppointmentInfo ==
    [has_referral |-> None, physician |-> None,
     appointment_date |-> None, appointment_time |-> None]

\* the default of the field appointment_info is one AppointmentInfo object,
\* made when the class is defined: every PatientInfo() refers to it
DefaultAppointmentInfo == "PatientInfo.appointment_info"

PatientInfo ==
    [patient_name |-> None, date_of_birth |-> None,
     insurance_payer_name |-> None, insurance_id |-> None,
     reason_for_visit |-> None, address |-> None, phone_number |-> None,
     provide_email |-> None, email |-> None,
     appointment_info |-> DefaultAppointmentInfo]

(***************************************************************************)
(* utils.py: the notification.                                             *)
(***************************************************************************)
\* what sg.send does for one recipient: a response with a status, or raises
Sent == [raised |-> FALSE, status |-> Accepted]
Refused == [raised |-> FALSE, status |-> 500]
Raised == [raised |-> TRUE, status |-> 0]

\* the outcomes of a run of send_email: the loop stops at the first failure,
\* so a run accepts the first k messages and fails, if k < n, on the next one
SendRuns(n) ==
    {[i \in 1..n |-> IF i <= k THEN Sent ELSE f] :
        k \in 0..n, f \in {Refused, Raised}}

\* the loop of send_email over emails[i..]: ok is the value returned (FALSE
\* also when send_email_sendgrid re-raises), delivered the recipients whose
\* message SendGrid accepted
RECURSIVE send_loop(_, _, _)
send_loop(emails, sends, i) ==
    IF i > Len(emails)
    THEN [ok |-> TRUE, raised |-> FALSE, delivered |-> i - 1]
    ELSE IF sends[i].raised
    THEN [ok |-> FALSE, raised |-> TRUE, delivered |-> i - 1]
    ELSE IF sends[i].status /= Accepted
    THEN [ok |-> FALSE, raised |-> FALSE, delivered |-> i - 1]
    ELSE send_loop(emails, sends, i + 1)

send_email(snapshot, emails, sends) ==
    IF emails = <<>> THEN [ok |-> FALSE, raised |-> FALSE, delivered |-> 0]
    ELSE send_loop(emails, sends, 1)

(***************************************************************************)
(* agent.py: what the tools return.                                        *)
(***************************************************************************)
NeedsMore == "Information recorded. Continue gathering the missing details."
AskPhysician == "You mentioned you have a referral: please provide the referring physician's name."
AskEmailChoice == "All required information has been collected. Do you want to provide an email address?"
AskEmail == "You indicated you want to provide an email address."
ReadyToConfirm == "Here are the details you provided."
InvalidPhysician == "The physician name provided does not match our records."
InvalidDate == "The date provided seems invalid."
InvalidTime == "The time provided seems invalid."
InvalidPhone == "The phone number provided seems invalid."
InvalidEmail == "The email address provided seems invalid."
Goodbye == "Goodbye!"
Sorry == "Sorry, there was an error scheduling your appointment."
Handoff == "SchedulingAgent()"
NameError == "NameError: name 'provided_email' is not defined"

Rejections == {InvalidPhysician, InvalidDate, InvalidTime, InvalidPhone, InvalidEmail}

\* what one finalization did: the time asked for, the resolver's answer, the
\* reschedule notice ("none", "sent", "failed"), the recipients reached, the
\* value of send_email and the session close ("none", "ok", "failed")
NoAttempt ==
    [ran |-> FALSE, requested |-> None, resolved |-> <<None, None>>,
     lookup |-> "none", notice |-> "none", delivered |-> 0, emailed |-> FALSE,
     close |-> "none"]

Call(s, op, ret, attempt) ==
    [session |-> s, op |-> op, ret |-> ret, attempt |-> attempt]

(***************************************************************************)
(* agent.py: SchedulingAgent.                                              *)
(***************************************************************************)
\* a _handoff_if_done that asks for the physician whatever the referral flag
Scheduling_handoff_always_physician(ai) ==
    IF Truthy(ai.appointment_date) /\ Truthy(ai.appointment_time)
       /\ ai.has_referral /= None
    THEN IF ~Truthy(ai.physician) THEN AskPhysician ELSE ReadyToConfirm
    ELSE NeedsMore

\* SchedulingAgent._handoff_if_done; confirm_and_end(context, False) returns
\* the ReadyToConfirm text
Scheduling_handoff_if_done(ai) ==
    IF Truthy(ai.appointment_date) /\ Truthy(ai.appointment_time)
       /\ ai.has_referral /= None
    THEN IF ai.has_referral = <<TRUE>> /\ ~Truthy(ai.physician)
         THEN AskPhysician
         ELSE ReadyToConfirm
    ELSE NeedsMore

\* a finalization that puts the requested time back when the notification fails
finalize_rollback(snapshot, ai, csv, emails, reply_ok, sends) ==
    LET r == get_avaliability(csv, ai.appointment_time, ai.physician)
        sent == send_email(snapshot, emails, sends)
        good == "ret" \in DOMAIN r /\ Truthy(r.ret[1]) /\ Truthy(r.ret[2])
    IN  [success |-> good /\ sent.ok,
         ai |-> IF good /\ sent.ok
                THEN [ai EXCEPT !.physician = r.ret[1], !.appointment_time = r.ret[2]]
                ELSE ai,
         attempt |-> [NoAttempt EXCEPT
                        !.ran = TRUE, !.requested = ai.appointment_time,
                        !.lookup = IF "ret" \in DOMAIN r THEN "returned" ELSE r.raise,
                        !.resolved = IF "ret" \in DOMAIN r THEN r.ret ELSE <<None, None>>,
                        !.delivered = IF good THEN sent.delivered ELSE 0,
                        !.emailed = good /\ sent.ok]]

\* a finalization that returns True whatever send_email returned
finalize_success_unconditional(snapshot, ai, csv, emails, reply_ok, sends) ==
    LET r == get_avaliability(csv, ai.appointment_time, ai.physician)
        began == [NoAttempt EXCEPT !.ran = TRUE, !.requested = ai.appointment_time]
        found == [began EXCEPT !.lookup = "returned", !.resolved = r.ret]
        ai1 == [ai EXCEPT !.physician = r.ret[1], !.appointment_time = r.ret[2]]
        sent == send_email(<<snapshot, ai1>>, emails, sends)
    IN  IF "raise" \in DOMAIN r
        THEN [success |-> FALSE, ai |-> ai,
              attempt |-> [began EXCEPT !.lookup = r.raise]]
        ELSE IF ~Truthy(r.ret[1]) \/ ~Truthy(r.ret[2])
        THEN [success |-> FALSE, ai |-> ai, attempt |-> found]
        ELSE [success |-> TRUE, ai |-> ai1,
              attempt |-> [found EXCEPT
                 !.notice = IF ai.appointment_time = r.ret[2] THEN "none"
                            ELSE IF reply_ok THEN "sent" ELSE "failed",
                 !.delivered = sent.delivered,
                 !.emailed = sent.ok]]

\* a finalization that stores what the resolver returned before testing it
finalize_assign_early(snapshot, ai, csv, emails, reply_ok, sends) ==
    LET r == get_avaliability(csv, ai.appointment_time, ai.physician)
        began == [NoAttempt EXCEPT !.ran = TRUE, !.requested = ai.appointment_time]
        found == [began EXCEPT !.lookup = "returned", !.resolved = r.ret]
        ai1 == [ai EXCEPT !.physician = r.ret[1], !.appointment_time = r.ret[2]]
        sent == send_email(<<snapshot, ai1>>, emails, sends)
    IN  IF "raise" \in DOMAIN r
        THEN [success |-> FALSE, ai |-> ai,
              attempt |-> [began EXCEPT !.lookup = r.raise]]
        ELSE IF ~Truthy(r.ret[1]) \/ ~Truthy(r.ret[2])
        THEN [success |-> FALSE, ai |-> ai1, attempt |-> found]
        ELSE [success |-> sent.ok, ai |-> ai1,
              attempt |-> [found EXCEPT
                 !.notice = IF ai.appointment_time = r.ret[2] THEN "none"
                            ELSE IF reply_ok THEN "sent" ELSE "failed",
                 !.delivered = sent.delivered,
                 !.emailed = sent.ok]]

\* SchedulingAgent._finalize_datetime_and_send_email: the value returned, the
\* appointment info it leaves and what it did.  reply_ok: generate_reply for
\* the reschedule notice does not raise; sends: what sg.send does per recipient
finalize_datetime_and_send_email(snapshot, ai, csv, emails, reply_ok, sends) ==
    LET r == get_avaliability(csv, ai.appointment_time, ai.physician)
        began == [NoAttempt EXCEPT !.ran = TRUE, !.requested = ai.appointment_time]
    IN  IF "raise" \in DOMAIN r
        THEN [success |-> FALSE, ai |-> ai,
              attempt |-> [began EXCEPT !.lookup = r.raise]]
        ELSE
        LET physician == r.ret[1]
            available_time == r.ret[2]
            found == [began EXCEPT !.lookup = "returned", !.resolved = r.ret]
        IN  IF ~Truthy(physician) \/ ~Truthy(available_time)
            THEN [success |-> FALSE, ai |-> ai, attempt |-> found]
            ELSE
            LET ai1 == [ai EXCEPT !.physician = physician,
                                  !.appointment_time = available_time]
                sent == send_email(<<snapshot, ai1>>, emails, sends)
            IN  [success |-> sent.ok, ai |-> ai1,
                 attempt |-> [found EXCEPT
                    !.notice = IF ai.appointment_time = available_time THEN "none"
                               ELSE IF reply_ok THEN "sent" ELSE "failed",
                    !.delivered = sent.delivered,
                    !.emailed = sent.ok]]

Request(s) == heap[userdata[s].appointment_info]

SetRequest(s, ai) == heap' = [heap EXCEPT ![userdata[s].appointment_info] = ai]

\* a session whose tools stay callable after session.aclose()
InSchedulingAgent(s) == agent[s] = "SchedulingAgent"

\* the tools of SchedulingAgent can be called: it is the session's agent and
\* the session has not been closed
InScheduling(s) == agent[s] = "SchedulingAgent" /\ ~closed[s]

Scheduling_record_has_referral(s, has_referral) ==
    /\ InScheduling(s)
    /\ LET ai == [Request(s) EXCEPT !.has_referral = <<has_referral>>]
       IN  /\ SetRequest(s, ai)
           /\ last' = Call(s, "record_has_referral", Scheduling_handoff_if_done(ai), NoAttempt)
    /\ UNCHANGED <<agent, closed, userdata, physicians_csv, emails_txt, probe>>

Scheduling_record_physician(s, physician) ==
    /\ InScheduling(s)
    /\ LET v == verify_physician(physicians_csv, physician)
           ai == [Request(s) EXCEPT !.physician = v[2][1]]
       IN  IF v[1] /\ v[2] /= <<>>
           THEN /\ SetRequest(s, ai)
                /\ last' = Call(s, "record_physician", Scheduling_handoff_if_done(ai), NoAttempt)
           ELSE /\ last' = Call(s, "record_physician", InvalidPhysician, NoAttempt)
                /\ UNCHANGED heap
    /\ UNCHANGED <<agent, closed, userdata, physicians_csv, emails_txt, probe>>

Scheduling_record_appointment_date(s, appointment_date) ==
    /\ InScheduling(s)
    /\ LET formatted_date == to_date_string(appointment_date)
           ai == [Request(s) EXCEPT !.appointment_date = formatted_date.ret]
       IN  IF "raise" \in DOMAIN formatted_date
           THEN /\ last' = Call(s, "record_appointment_date", InvalidDate, NoAttempt)
                /\ UNCHANGED heap
           ELSE /\ SetRequest(s, ai)
                /\ last' = Call(s, "record_appointment_date", Scheduling_handoff_if_done(ai), NoAttempt)
    /\ UNCHANGED <<agent, closed, userdata, physicians_csv, emails_txt, probe>>

Scheduling_record_appointment_time(s, appointment_time) ==
    /\ InScheduling(s)
    /\ LET formatted_time == to_time_string(appointment_time)
           ai == [Request(s) EXCEPT !.appointment_time = formatted_time.ret]
       IN  IF "raise" \in DOMAIN formatted_time
           THEN /\ last' = Call(s, "record_appointment_time", InvalidTime, NoAttempt)
                /\ UNCHANGED heap
           ELSE /\ SetRequest(s, ai)
                /\ last' = Call(s, "record_appointment_time", Scheduling_handoff_if_done(ai), NoAttempt)
    /\ UNCHANGED <<agent, closed, userdata, physicians_csv, emails_txt, probe>>

\* a confirm_and_end that reports the failure message when aclose() raises
Scheduling_confirm_and_end_close_matters(s, confirmed) ==
    /\ InScheduling(s)
    /\ IF confirmed
       THEN \E reply_ok \in BOOLEAN, close_ok \in BOOLEAN,
               sends \in SendRuns(Len(emails_txt)) :
            LET f == finalize_datetime_and_send_email(
                        userdata[s], Request(s), physicians_csv, emails_txt,
                        reply_ok, sends)
            IN  /\ SetRequest(s, f.ai)
                /\ closed' = [closed EXCEPT ![s] = f.success /\ close_ok]
                /\ last' = Call(s, "confirm_and_end",
                                IF f.success /\ close_ok THEN Goodbye ELSE Sorry,
                                [f.attempt EXCEPT !.close =
                                    IF ~f.success THEN "none"
                                    ELSE IF close_ok THEN "ok" ELSE "failed"])
       ELSE /\ last' = Call(s, "confirm_and_end", ReadyToConfirm, NoAttempt)
            /\ UNCHANGED <<heap, closed>>
    /\ UNCHANGED <<agent, userdata, physicians_csv, emails_txt, probe>>

\* a confirm_and_end that starts the request over when the user declines
Scheduling_confirm_and_end_restart(s, confirmed) ==
    /\ InScheduling(s)
    /\ IF confirmed
       THEN \E reply_ok \in BOOLEAN, close_ok \in BOOLEAN,
               sends \in SendRuns(Len(emails_txt)) :
            LET f == finalize_datetime_and_send_email(
                        userdata[s], Request(s), physicians_csv, emails_txt,
                        reply_ok, sends)
            IN  /\ SetRequest(s, f.ai)
                /\ closed' = [closed EXCEPT ![s] = f.success /\ close_ok]
                /\ last' = Call(s, "confirm_and_end",
                                IF f.success THEN Goodbye ELSE Sorry,
                                [f.attempt EXCEPT !.close =
                                    IF ~f.success THEN "none"
                                    ELSE IF close_ok THEN "ok" ELSE "failed"])
       ELSE /\ SetRequest(s, AppointmentInfo)
            /\ last' = Call(s, "confirm_and_end", ReadyToConfirm, NoAttempt)
            /\ UNCHANGED closed
    /\ UNCHANGED <<agent, userdata, physicians_csv, emails_txt, probe>>

\* SchedulingAgent.confirm_and_end.  close_ok: session.aclose() does not raise.
\* The generate_reply of the farewell changes nothing, whether it raises or not.
Scheduling_confirm_and_end(s, confirmed) ==
    /\ InScheduling(s)
    /\ IF confirmed
       THEN \E reply_ok \in BOOLEAN, close_ok \in BOOLEAN,
               sends \in SendRuns(Len(emails_txt)) :
            LET f == finalize_datetime_and_send_email(
                        userdata[s], Request(s), physicians_csv, emails_txt,
                        reply_ok, sends)
            IN  /\ SetRequest(s, f.ai)
                /\ closed' = [closed EXCEPT ![s] = f.success /\ close_ok]
                /\ last' = Call(s, "confirm_and_end",
                                IF f.success THEN Goodbye ELSE Sorry,
                                [f.attempt EXCEPT !.close =
                                    IF ~f.success THEN "none"
                                    ELSE IF close_ok THEN "ok" ELSE "failed"])
       ELSE /\ last' = Call(s, "confirm_and_end", ReadyToConfirm, NoAttempt)
            /\ UNCHANGED <<heap, closed>>
    /\ UNCHANGED <<agent, userdata, physicians_csv, emails_txt, probe>>

(***************************************************************************)
(* agent.py: IntakeAgent.                                                  *)
(***************************************************************************)
all_info_collected(u) ==
    /\ u.patient_name /= None
    /\ u.date_of_birth /= None
    /\ u.insurance_payer_name /= None
    /\ u.insurance_id /= None
    /\ u.reason_for_visit /= None
    /\ u.address /= None
    /\ u.phone_number /= None

\* IntakeAgent._handoff_if_done.  The name provided_email is bound nowhere
\* (no local, no global of agent.py, no builtin): evaluating it raises
\* NameError, which nothing in the tool catches
Intake_handoff_if_done(u) ==
    IF all_info_collected(u) THEN NameError ELSE NeedsMore

InIntake(s) == agent[s] = "IntakeAgent" /\ ~closed[s]

\* context.userdata.<field> = value; return await self._handoff_if_done(context)
IntakeStore(s, op, u) ==
    /\ userdata' = [userdata EXCEPT ![s] = u]
    /\ last' = Call(s, op, Intake_handoff_if_done(u), NoAttempt)
    /\ UNCHANGED <<agent, closed, heap, physicians_csv, emails_txt, probe>>

IntakeReject(s, op, message) ==
    /\ last' = Call(s, op, message, NoAttempt)
    /\ UNCHANGED <<agent, closed, userdata, heap, physicians_csv, emails_txt, probe>>

Intake_record_name(s, name) ==
    /\ InIntake(s)
    /\ IntakeStore(s, "record_name", [userdata[s] EXCEPT !.patient_name = name])

Intake_record_date_of_birth(s, date_of_birth) ==
    /\ InIntake(s)
    /\ IntakeStore(s, "record_date_of_birth",
                   [userdata[s] EXCEPT !.date_of_birth = date_of_birth])

Intake_record_insurance_payer_name(s, insurance_payer_name) ==
    /\ InIntake(s)
    /\ IntakeStore(s, "record_insurance_payer_name",
                   [userdata[s] EXCEPT !.insurance_payer_name = insurance_payer_name])

Intake_record_insurance_id(s, insurance_id) ==
    /\ InIntake(s)
    /\ IntakeStore(s, "record_insurance_id",
                   [userdata[s] EXCEPT !.insurance_id = insurance_id])

Intake_record_reason_for_visit(s, reason_for_visit) ==
    /\ InIntake(s)
    /\ IntakeStore(s, "record_reason_for_visit",
                   [userdata[s] EXCEPT !.reason_for_visit = reason_for_visit])

Intake_record_address(s, address) ==
    /\ InIntake(s)
    /\ IntakeStore(s, "record_address", [userdata[s] EXCEPT !.address = address])

\* parsed = verify_phone(phone_number) is not awaited: parsed is the coroutine
Intake_record_phone_number(s, phone_number) ==
    /\ InIntake(s)
    /\ LET parsed == Coroutine("verify_phone", phone_number)
       IN  IF Truthy(parsed)
           THEN IntakeStore(s, "record_phone_number",
                            [userdata[s] EXCEPT !.phone_number = parsed])
           ELSE IntakeReject(s, "record_phone_number", InvalidPhone)

\* valid = verify_email(email) is not awaited: valid is the coroutine
Intake_record_email(s, email) ==
    /\ InIntake(s)
    /\ LET valid == Coroutine("verify_email", email)
       IN  IF Truthy(valid)
           THEN IntakeStore(s, "record_email",
                            [userdata[s] EXCEPT !.email = email.text])
           ELSE IntakeReject(s, "record_email", InvalidEmail)

\* IntakeAgent.confirm_and_end: returning SchedulingAgent() makes it the
\* session's agent; a failing generate_reply is logged
Intake_confirm_and_end(s, confirm) ==
    /\ InIntake(s)
    /\ IF confirm
       THEN /\ agent' = [agent EXCEPT ![s] = "SchedulingAgent"]
            /\ last' = Call(s, "confirm_and_end", Handoff, NoAttempt)
       ELSE /\ last' = Call(s, "confirm_and_end", ReadyToConfirm, NoAttempt)
            /\ UNCHANGED agent
    /\ UNCHANGED <<closed, userdata, heap, physicians_csv, emails_txt, probe>>

(***************************************************************************)
(* The inputs of the model.                                                *)
(***************************************************************************)
Sessions == {"A", "B"}

DrLee == <<"D","r","."," ","L","e","e">>
DrChen == <<"D","r","."," ","C","h","e","n">>
DrPark == <<"D","r","."," ","P","a","r","k">>
DrNobody == <<"D","r","."," ","N","o","b","o","d","y">>

\* fakedata/physicians.csv: an empty row is skipped, a physician may have no slot
FakeData ==
    [exists |-> TRUE,
     rows |-> << <<DrLee, << <<9, 0>>, <<10, 0>> >> >>,
                 <<>>,
                 <<DrChen, <<>> >>,
                 <<DrPark, << <<10, 0>>, <<14, 30>> >> >> >>]

PhysicianInputs == {DrLee, <<"c","h","e","n">>, <<"D","r"," ","P","a","r","k">>, DrNobody}

Unparsed == [text |-> <<"soon">>, dt |-> None]
Parsed(text, h, m) == [text |-> <<text>>, dt |-> <<2026, 11, 10, h, m>>]

DateInputs == {Unparsed, Parsed("next Tuesday", 0, 0)}
TimeInputs == {Unparsed, Parsed("9am", 9, 0), Parsed("half past nine", 9, 30),
               Parsed("2:20pm", 14, 20)}

TextInputs == {<<"text">>}
PhoneInputs == {[text |-> <<"650 253 0000">>, intl |-> <<"+1 650-253-0000">>],
                [text |-> <<"12">>, intl |-> None]}
EmailInputs == {[text |-> <<"pat@example.com">>, valid |-> TRUE],
                [text |-> <<"pat at home">>, valid |-> FALSE]}

Recipients(n) == [i \in 1..n |-> <<"office", i>>]

Idle == [fn |-> "none", arg |-> None, done |-> FALSE, out |-> None]

(***************************************************************************)
(* The intake phase of one conversation: entrypoint starts session A with  *)
(* IntakeAgent, whose tools run until confirm_and_end hands off.           *)
(***************************************************************************)
\* entrypoint for the sessions S, with emails.txt of n lines for an n in N
Started(S, N) ==
    /\ agent = [s \in Sessions |-> IF s \in S THEN "IntakeAgent" ELSE "none"]
    /\ closed = [s \in Sessions |-> FALSE]
    /\ userdata = [s \in Sessions |-> PatientInfo]
    /\ heap = [r \in {DefaultAppointmentInfo} |-> AppointmentInfo]
    /\ physicians_csv = FakeData
    /\ emails_txt \in {Recipients(n) : n \in N}
    /\ last = Call("none", "entrypoint", "", NoAttempt)

InitIntake == Started({"A"}, {MaxRecipients}) /\ probe = Idle

IntakeTool(s) ==
    \/ \E v \in TextInputs : Intake_record_name(s, v)
    \/ \E v \in TextInputs : Intake_record_date_of_birth(s, v)
    \/ \E v \in TextInputs : Intake_record_insurance_payer_name(s, v)
    \/ \E v \in TextInputs : Intake_record_insurance_id(s, v)
    \/ \E v \in TextInputs : Intake_record_reason_for_visit(s, v)
    \/ \E v \in TextInputs : Intake_record_address(s, v)
    \/ \E v \in PhoneInputs : Intake_record_phone_number(s, v)
    \/ \E v \in EmailInputs : Intake_record_email(s, v)

NextIntake ==
    \E s \in Sessions :
        \/ IntakeTool(s)
        \/ \E v \in BOOLEAN : Intake_confirm_and_end(s, v)

SpecIntake == InitIntake /\ [][NextIntake]_vars

(***************************************************************************)
(* The scheduling phase of one conversation, from the hand-off on.  The    *)
(* hand-off needs no field: it happens with nothing collected, or with     *)
(* every intake field collected.                                           *)
(***************************************************************************)
Collected ==
    [PatientInfo EXCEPT
        !.patient_name = <<"text">>, !.date_of_birth = <<"text">>,
        !.insurance_payer_name = <<"text">>, !.insurance_id = <<"text">>,
        !.reason_for_visit = <<"text">>, !.address = <<"text">>,
        !.phone_number = Coroutine("verify_phone",
                            [text |-> <<"650 253 0000">>, intl |-> <<"+1 650-253-0000">>])]

HandedOff(S, N) ==
    /\ agent = [s \in Sessions |-> IF s \in S THEN "SchedulingAgent" ELSE "none"]
    /\ closed = [s \in Sessions |-> FALSE]
    /\ userdata \in [Sessions -> {PatientInfo, Collected}]
    /\ \A s \in Sessions \ S : userdata[s] = PatientInfo
    /\ heap = [r \in {DefaultAppointmentInfo} |-> AppointmentInfo]
    /\ physicians_csv = FakeData
    /\ emails_txt \in {Recipients(n) : n \in N}
    /\ last = Call("A", "confirm_and_end", Handoff, NoAttempt)

InitScheduling == HandedOff({"A"}, 0..MaxRecipients) /\ probe = Idle

SchedulingTool(s) ==
    \/ \E v \in BOOLEAN : Scheduling_record_has_referral(s, v)
    \/ \E v \in PhysicianInputs : Scheduling_record_physician(s, v)
    \/ \E v \in DateInputs : Scheduling_record_appointment_date(s, v)
    \/ \E v \in TimeInputs : Scheduling_record_appointment_time(s, v)
    \/ \E v \in BOOLEAN : Scheduling_confirm_and_end(s, v)

NextScheduling == \E s \in Sessions : SchedulingTool(s)

SpecScheduling == InitScheduling /\ [][NextScheduling]_vars

(***************************************************************************)
(* Two conversations in one process, from the hand-off on.                 *)
(***************************************************************************)
InitSessions ==
    /\ HandedOff(Sessions, {MaxRecipients})
    /\ probe = Idle
    /\ \A s \in Sessions : userdata[s] = PatientInfo

SpecSessions == InitSessions /\ [][NextScheduling]_vars

(***************************************************************************)
(* One conversation through both phases: entrypoint, intake, the hand-off, *)
(* scheduling, the close.  Of the intake tools it has record_name, which   *)
(* stands for the six that store their argument as it is, and              *)
(* record_phone_number.                                                    *)
(***************************************************************************)
InitConversation == Started({"A"}, {MaxRecipients}) /\ probe = Idle

NextConversation ==
    \E s \in Sessions :
        \/ \E v \in TextInputs : Intake_record_name(s, v)
        \/ \E v \in PhoneInputs : Intake_record_phone_number(s, v)
        \/ \E v \in BOOLEAN : Intake_confirm_and_end(s, v)
        \/ SchedulingTool(s)

SpecConversation == InitConversation /\ [][NextConversation]_vars

(***************************************************************************)
(* round_to_nearest_half_hour applied to every HH:MM time.                 *)
(***************************************************************************)
Apply(fn, arg) == [fn |-> fn, arg |-> arg, done |-> FALSE, out |-> None]

InitRound ==
    /\ Started({}, {0})
    /\ probe \in {Apply("round_to_nearest_half_hour", <<h, m>>) :
                    h \in 0..(HoursPerDay - 1), m \in 0..(MinutesPerHour - 1)}

Call_round_to_nearest_half_hour ==
    /\ probe.fn = "round_to_nearest_half_hour"
    /\ ~probe.done
    /\ probe' = [probe EXCEPT !.done = TRUE,
                              !.out = round_to_nearest_half_hour(probe.arg)]
    /\ UNCHANGED <<agent, closed, userdata, heap, physicians_csv, emails_txt, last>>

SpecRound == InitRound /\ [][Call_round_to_nearest_half_hour]_vars

(***************************************************************************)
(* get_avaliability applied to a time, a physician or None, and a roster   *)
(* of two physicians with up to MaxSlots slots each, in any order.         *)
(***************************************************************************)
SlotGrid == {<<9, 0>>, <<10, 0>>, <<14, 30>>}
SlotLists == UNION {[1..n -> SlotGrid] : n \in 0..MaxSlots}
Rosters ==
    {[exists |-> TRUE, rows |-> << <<DrLee, a>>, <<DrPark, b>> >>] :
        a \in SlotLists, b \in SlotLists}
ResolveTimes == {<<9, 0>>, <<9, 30>>, <<9, 40>>, <<14, 20>>, <<23, 50>>}
ResolvePhysicians == {None, DrLee, DrPark, DrNobody}

InitResolve ==
    /\ agent = [s \in Sessions |-> "none"]
    /\ closed = [s \in Sessions |-> FALSE]
    /\ userdata = [s \in Sessions |-> PatientInfo]
    /\ heap = [r \in {DefaultAppointmentInfo} |-> AppointmentInfo]
    /\ physicians_csv \in Rosters
    /\ emails_txt = <<>>
    /\ last = Call("none", "entrypoint", "", NoAttempt)
    /\ probe \in {Apply("get_avaliability", <<t, p>>) :
                    t \in ResolveTimes, p \in ResolvePhysicians}

Call_get_avaliability ==
    /\ probe.fn = "get_avaliability"
    /\ ~probe.done
    /\ probe' = [probe EXCEPT
                    !.done = TRUE,
                    !.out = get_avaliability(physicians_csv, probe.arg[1], probe.arg[2])]
    /\ UNCHANGED <<agent, closed, userdata, heap, physicians_csv, emails_txt, last>>

SpecResolve == InitResolve /\ [][Call_get_avaliability]_vars

(***************************************************************************)
(* _finalize_datetime_and_send_email applied to two appointment requests   *)
(* under one roster file and one emails.txt: what its caller can tell      *)
(* apart.  The roster file is read again at every call, so it can be gone  *)
(* when a physician recorded earlier is looked up.                         *)
(***************************************************************************)
MissingData == [exists |-> FALSE, rows |-> <<>>]

FinalizeInputs ==
    {[ai |-> [AppointmentInfo EXCEPT !.has_referral = <<p /= None>>,
                                     !.physician = p,
                                     !.appointment_date = <<11, 10, 2026>>,
                                     !.appointment_time = t],
      sends |-> r] :
        p \in {None, DrLee, DrChen},
        t \in {None, <<9, 0>>, <<9, 30>>},
        r \in SendRuns(MaxRecipients)}

InitFinalize ==
    /\ agent = [s \in Sessions |-> "none"]
    /\ closed = [s \in Sessions |-> FALSE]
    /\ userdata = [s \in Sessions |-> PatientInfo]
    /\ heap = [r \in {DefaultAppointmentInfo} |-> AppointmentInfo]
    /\ physicians_csv \in {FakeData, MissingData}
    /\ emails_txt = Recipients(MaxRecipients)
    /\ last = Call("none", "entrypoint", "", NoAttempt)
    /\ probe \in {Apply("_finalize_datetime_and_send_email", <<x, y>>) :
                    x \in FinalizeInputs, y \in FinalizeInputs}

Call_finalize_datetime_and_send_email ==
    /\ probe.fn = "_finalize_datetime_and_send_email"
    /\ ~probe.done
    /\ probe' = [probe EXCEPT
                    !.done = TRUE,
                    !.out = [i \in 1..2 |->
                                finalize_datetime_and_send_email(
                                    PatientInfo, probe.arg[i].ai, physicians_csv,
                                    emails_txt, TRUE, probe.arg[i].sends)]]
    /\ UNCHANGED <<agent, closed, userdata, heap, physicians_csv, emails_txt, last>>

SpecFinalize == InitFinalize /\ [][Call_finalize_datetime_and_send_email]_vars

(***************************************************************************)
(* The scheduling phase of one conversation while fakedata/physicians.csv  *)
(* is replaced or removed on disk: verify_physician and get_avaliability   *)
(* open the file at every call.                                            *)
(***************************************************************************)
InitRoster ==
    /\ HandedOff({"A"}, {MaxRecipients})
    /\ probe = Idle
    /\ userdata["A"] = PatientInfo

\* the file is removed, or put back
Replace_physicians_csv ==
    /\ physicians_csv' \in {FakeData, MissingData} \ {physicians_csv}
    /\ UNCHANGED <<agent, closed, userdata, heap, emails_txt, last, probe>>

NextRoster == NextScheduling \/ Replace_physicians_csv

SpecRoster == InitRoster /\ [][NextRoster]_vars

(***************************************************************************)
(* Properties.                                                             *)
(***************************************************************************)
RecordOps ==
    {"record_name", "record_date_of_birth", "record_insurance_payer_name",
     "record_insurance_id", "record_reason_for_visit", "record_address",
     "record_phone_number", "record_email", "record_has_referral",
     "record_physician", "record_appointment_date", "record_appointment_time"}

\* the required fields of the session's phase are all present
RequiredPresent(s) ==
    IF agent[s] = "IntakeAgent" THEN all_info_collected(userdata[s])
    ELSE /\ Request(s).has_referral /= None
         /\ Request(s).appointment_date /= None
         /\ Request(s).appointment_time /= None
         /\ Request(s).has_referral = <<TRUE>> => Request(s).physician /= None

\* the last call was an accepted record_* submission of session s
Submitted(s) ==
    /\ last.session = s
    /\ last.op \in RecordOps
    /\ last.ret \notin Rejections

\* C1: in each phase an accepted record_* submission returns the
\* confirmation request exactly when it leaves every required field of the
\* phase present, and returns a request for more otherwise; it never hands
\* off or finalizes.
C1_LastFieldAsksToConfirm ==
    \A s \in Sessions :
        Submitted(s) =>
            /\ last.ret \in {NeedsMore, AskPhysician, ReadyToConfirm}
            /\ last.ret = ReadyToConfirm <=> RequiredPresent(s)

\* C2: after an accepted scheduling submission with date and time present,
\* the directive follows the referral flag as it is now: true with no
\* physician asks for the physician, false asks to confirm.
C2_ReferralEvaluatedFresh ==
    \A s \in Sessions :
        (/\ Submitted(s)
         /\ Request(s).appointment_date /= None
         /\ Request(s).appointment_time /= None) =>
            /\ (Request(s).has_referral = <<TRUE>> /\ Request(s).physician = None)
                    => last.ret = AskPhysician
            /\ Request(s).has_referral = <<FALSE>> => last.ret = ReadyToConfirm

\* the referral flag was submitted as true after date and time were recorded
C2_Witness ==
    /\ Submitted("A")
    /\ last.op = "record_has_referral"
    /\ Request("A").has_referral = <<TRUE>>
    /\ Request("A").physician = None
    /\ Request("A").appointment_date /= None
    /\ Request("A").appointment_time /= None
    /\ last.ret = AskPhysician

\* the last call was a finalization of session s that ended as ret
Finalized(s, ret) ==
    /\ last.session = s
    /\ last.attempt.ran
    /\ last.ret = ret

\* the resolver of the last finalization returned a physician and a time
Resolved ==
    /\ last.attempt.lookup = "returned"
    /\ Truthy(last.attempt.resolved[1])
    /\ Truthy(last.attempt.resolved[2])

\* C3: a finalization that succeeds with a time other than the requested one
\* has stored that time and has emitted the reschedule notice.
C3_NoSilentSubstitution ==
    \A s \in Sessions :
        (Finalized(s, Goodbye) /\ Request(s).appointment_time /= last.attempt.requested)
            => /\ Request(s).appointment_time = last.attempt.resolved[2]
               /\ last.attempt.notice = "sent"

\* C4: when the notification fails after the resolver returned a physician
\* and a time, the request keeps both, the session is not closed and the
\* call returns the failure message.
C4_NotifyFailedKeepsResolved ==
    \A s \in Sessions :
        (Finalized(s, last.ret) /\ Resolved /\ ~last.attempt.emailed) =>
            /\ Request(s).physician = last.attempt.resolved[1]
            /\ Request(s).appointment_time = last.attempt.resolved[2]
            /\ ~closed[s]
            /\ last.ret = Sorry

\* the notification failed after the resolver substituted another time
C4_Witness ==
    /\ Finalized("A", Sorry)
    /\ Resolved
    /\ ~last.attempt.emailed
    /\ last.attempt.requested /= last.attempt.resolved[2]
    /\ Len(emails_txt) > 0

\* C5: a finalization that does not succeed has delivered the notification
\* to no recipient.
C5_NoDeliveryWithoutSuccess ==
    \A s \in Sessions :
        (last.session = s /\ last.attempt.ran /\ last.ret /= Goodbye)
            => last.attempt.delivered = 0

\* C6: a call of one session leaves the appointment request of every other
\* session unchanged.
C6_SessionsOwnTheirRequest ==
    [][\A s \in Sessions : last'.session /= s => Request(s)' = Request(s)]_vars

\* C7: a stored phone number is the international format of a valid number
\* and a stored email address is one the validator accepts.
C7_StoredValuesAccepted ==
    \A s \in Sessions :
        /\ userdata[s].phone_number /= None
              => \E p \in PhoneInputs :
                    p.intl /= None /\ userdata[s].phone_number = p.intl
        /\ userdata[s].email /= None
              => \E e \in EmailInputs : e.valid /\ userdata[s].email = e.text

\* C8: every tool call returns a message, a directive or an outcome: none
\* ends in an exception that leaves the tool.
C8_NoUnhandledFault ==
    last.op /= "entrypoint" =>
        last.ret \in Rejections \cup
            {NeedsMore, AskPhysician, AskEmailChoice, AskEmail, ReadyToConfirm,
             Handoff, Goodbye, Sorry}

\* the slots of physician p in a roster whose rows name each physician once
SlotsOf(csv, p) == csv.rows[CHOOSE i \in 1..Len(csv.rows) : csv.rows[i][1] = p][2]

Distance(a, b) == Abs((a[1] * 60 + a[2]) - (b[1] * 60 + b[2]))

\* get_avaliability was applied to a physician of the roster who has slots,
\* none of them the requested time
NearestCase ==
    /\ probe.fn = "get_avaliability"
    /\ probe.done
    /\ probe.arg[2] \in {DrLee, DrPark}
    /\ SlotsOf(physicians_csv, probe.arg[2]) /= <<>>
    /\ probe.arg[1] \notin Range(SlotsOf(physicians_csv, probe.arg[2]))

\* C9: for a given physician whose slots do not include the requested time,
\* the resolver returns that physician with a slot of minimal distance in
\* minutes to the requested time, the first listed of the slots at that
\* distance.
C9_NearestSlotEarliestListed ==
    NearestCase =>
        LET slots == SlotsOf(physicians_csv, probe.arg[2])
            t == probe.arg[1]
        IN  /\ "ret" \in DOMAIN probe.out
            /\ probe.out.ret[1] = probe.arg[2]
            /\ \E i \in 1..Len(slots) :
                /\ probe.out.ret[2] = slots[i]
                /\ \A j \in 1..Len(slots) : Distance(slots[i], t) <= Distance(slots[j], t)
                /\ \A j \in 1..(i - 1) : Distance(slots[j], t) > Distance(slots[i], t)

\* 09:30 is as far from 10:00 as from 09:00: the slot listed first is returned
C9_Witness ==
    /\ NearestCase
    /\ probe.arg = <<<<9, 30>>, DrLee>>
    /\ SlotsOf(physicians_csv, DrLee) = << <<10, 0>>, <<9, 0>> >>
    /\ probe.out.ret = <<DrLee, <<10, 0>>>>

Rounded == probe.fn = "round_to_nearest_half_hour" /\ probe.done

\* C10 as stated: a time 15 minutes past a 30-minute boundary rounds up.
C10_HalfUp ==
    (Rounded /\ probe.arg[2] % 30 = 15) =>
        LET up == (probe.arg[1] * 60 + probe.arg[2]) + 15
        IN  probe.out = <<(up \div 60) % 24, up % 60>>

\* C10: the result is a 30-minute boundary at most 15 minutes from the time,
\* the hour wrapping at 24; a time 15 minutes from two boundaries goes to the
\* whole hour (09:15 to 09:00, 09:45 to 10:00); from 23:45 on the result is
\* 00:00; the minutes are 00 or 30 and the hour is in 0..23.
C10_HalfToWholeHour ==
    Rounded =>
        LET m == probe.arg[1] * 60 + probe.arg[2]
        IN  /\ probe.out[1] \in 0..23
            /\ probe.out[2] \in {0, 30}
            /\ \E b \in {30 * k : k \in 0..48} :
                /\ Abs(b - m) <= 15
                /\ Abs(b - m) = 15 => b % 60 = 0
                /\ probe.out = <<(b \div 60) % 24, b % 60>>
            /\ m >= 23 * 60 + 45 => probe.out = <<0, 0>>

\* 09:15 has been rounded, to 09:00
C10_Witness ==
    /\ Rounded
    /\ probe.arg = <<9, 15>>
    /\ probe.out = <<9, 0>>

\* get_avaliability has been applied
Resolving == probe.fn = "get_avaliability" /\ probe.done

\* the physicians of the roster, whose rows name each physician once
RosterNames == {physicians_csv.rows[i][1] : i \in 1..Len(physicians_csv.rows)}

\* C11: with no physician given the resolver returns the first physician in
\* roster order whose slots contain the requested time rounded to the half
\* hour, with that rounded time; when no physician has it (an empty slot
\* list never has it) the resolver returns (None, None).
C11_FirstPhysicianWithRoundedSlot ==
    (Resolving /\ probe.arg[2] = None) =>
        LET rows == physicians_csv.rows
            rounded == round_to_nearest_half_hour(probe.arg[1])
            offering == {i \in 1..Len(rows) : rounded \in Range(rows[i][2])}
        IN  IF offering = {}
            THEN probe.out = [ret |-> <<None, None>>]
            ELSE \E i \in offering :
                    /\ \A j \in offering : i <= j
                    /\ probe.out = [ret |-> <<rows[i][1], rounded>>]

\* 14:20 with no physician, both physicians offering 14:30: the first one
C11_Witness ==
    /\ Resolving
    /\ probe.arg = <<<<14, 20>>, None>>
    /\ <<14, 30>> \in Range(SlotsOf(physicians_csv, DrLee))
    /\ <<14, 30>> \in Range(SlotsOf(physicians_csv, DrPark))
    /\ probe.out = [ret |-> <<DrLee, <<14, 30>>>>]

\* C12: for a physician of the roster and a time that is one of that
\* physician's slots the resolver returns the physician and the time as
\* given; resolving again with the physician and time of any result that
\* has both returns the same result.
C12_ExactSlotReturnedAsGiven ==
    Resolving =>
        /\ (/\ probe.arg[2] \in RosterNames
            /\ probe.arg[1] \in Range(SlotsOf(physicians_csv, probe.arg[2])))
                => probe.out = [ret |-> <<probe.arg[2], probe.arg[1]>>]
        /\ (/\ "ret" \in DOMAIN probe.out
            /\ Truthy(probe.out.ret[1])
            /\ Truthy(probe.out.ret[2]))
                => get_avaliability(physicians_csv, probe.out.ret[2],
                                    probe.out.ret[1]) = probe.out

\* 09:00 asked of the second physician, who has it, as the first one does
C12_Witness ==
    /\ Resolving
    /\ probe.arg = <<<<9, 0>>, DrPark>>
    /\ <<9, 0>> \in Range(SlotsOf(physicians_csv, DrPark))
    /\ <<9, 0>> \in Range(SlotsOf(physicians_csv, DrLee))
    /\ probe.out = [ret |-> <<DrPark, <<9, 0>>>>]

\* C13: a physician who is not in the roster makes the resolver raise
\* KeyError, a LookupError, and never return (None, None); with no physician
\* the resolver raises nothing and returns (None, None) when no slot matches.
C13_UnknownPhysicianRaises ==
    Resolving =>
        /\ (probe.arg[2] /= None /\ probe.arg[2] \notin RosterNames)
                => probe.out = [raise |-> "KeyError"]
        /\ probe.arg[2] = None => "ret" \in DOMAIN probe.out
        /\ probe.out = [ret |-> <<None, None>>] => probe.arg[2] = None

\* a physician who is not in the roster was asked for
C13_Witness ==
    /\ Resolving
    /\ probe.arg[2] = DrNobody
    /\ probe.out = [raise |-> "KeyError"]

\* what a finalization attempt came to: the resolver raised (LookupFailed),
\* returned no physician or no time (NoAvailability), or returned both and
\* the notification failed (NotifyFailed) or reached every recipient (Success)
Outcome(attempt) ==
    IF attempt.lookup /= "returned" THEN "LookupFailed"
    ELSE IF ~Truthy(attempt.resolved[1]) \/ ~Truthy(attempt.resolved[2])
         THEN "NoAvailability"
    ELSE IF attempt.emailed THEN "Success"
    ELSE "NotifyFailed"

\* C14: two finalization attempts that ended in different outcomes among
\* Success, NoAvailability, NotifyFailed and LookupFailed give their caller
\* different results.
C14_OutcomesDistinguishable ==
    (probe.fn = "_finalize_datetime_and_send_email" /\ probe.done) =>
        (Outcome(probe.out[1].attempt) /= Outcome(probe.out[2].attempt)
            => probe.out[1].success /= probe.out[2].success)

\* C15: a session is closed only by a finalization attempt of that session
\* in which the resolver returned a physician and a time and the
\* notification reached every recipient; an attempt in which the resolver
\* raised, returned no physician or time, or the notification failed leaves
\* the session open.
C15_ClosedOnlyAfterSuccess ==
    \A s \in Sessions :
        /\ closed[s] =>
            /\ Finalized(s, Goodbye)
            /\ Outcome(last.attempt) = "Success"
            /\ last.attempt.delivered = Len(emails_txt)
        /\ (last.session = s /\ last.attempt.ran
                /\ Outcome(last.attempt) /= "Success") => ~closed[s]

\* a finalization has closed the session
C15_Witness ==
    /\ closed["A"]
    /\ Finalized("A", Goodbye)
    /\ last.attempt.emailed
    /\ last.attempt.close = "ok"

\* C16 as stated: after a finalization attempt that did not succeed the
\* request holds the time that was requested, not one the resolver assigned.
C16_ResolvedTimeOnlyOnSuccess ==
    \A s \in Sessions :
        (last.session = s /\ last.attempt.ran /\ last.ret /= Goodbye)
            => Request(s).appointment_time = last.attempt.requested

\* C16: after a finalization attempt the request holds the time the resolver
\* assigned exactly when the resolver returned a physician and a time,
\* whether the notification then succeeded or failed; an attempt in which
\* the resolver raised or returned no physician or no time leaves the
\* requested time in the request.
C16_ResolvedTimeIffResolverReturned ==
    \A s \in Sessions :
        (last.session = s /\ last.attempt.ran) =>
            IF Resolved
            THEN /\ Request(s).appointment_time = last.attempt.resolved[2]
                 /\ Request(s).physician = last.attempt.resolved[1]
            ELSE Request(s).appointment_time = last.attempt.requested

\* the resolver returned the given physician with no time: the requested
\* time is still in the request
C16_Witness ==
    /\ Finalized("A", Sorry)
    /\ last.attempt.lookup = "returned"
    /\ Truthy(last.attempt.resolved[1])
    /\ ~Truthy(last.attempt.resolved[2])
    /\ Truthy(last.attempt.requested)
    /\ Request("A").appointment_time = last.attempt.requested

\* C17: a finalization that substitutes another time for the requested one
\* and emits the reschedule notice dispatches no confirmation and closes
\* nothing in that call: the user can still decline the substituted time.
C17_NoDispatchBeforeDecline ==
    \A s \in Sessions :
        (/\ last.session = s
         /\ last.attempt.ran
         /\ Resolved
         /\ last.attempt.resolved[2] /= last.attempt.requested
         /\ last.attempt.notice = "sent") =>
            /\ last.attempt.delivered = 0
            /\ ~closed[s]

\* C20: a finalization in which the resolver returned a physician and a time
\* and the notification reached every recipient returns 'Goodbye!' whether
\* session.aclose() raised or not, and has sent to each recipient once.
C20_CloseFailureStillSuccess ==
    \A s \in Sessions :
        (last.session = s /\ last.attempt.ran
            /\ Outcome(last.attempt) = "Success") =>
            /\ last.ret = Goodbye
            /\ last.attempt.close \in {"ok", "failed"}
            /\ last.attempt.delivered = Len(emails_txt)

\* the notification went out and aclose() raised
C20_Witness ==
    /\ Finalized("A", Goodbye)
    /\ last.attempt.emailed
    /\ last.attempt.close = "failed"
    /\ ~closed["A"]

\* the phases in their order: no agent yet, IntakeAgent, SchedulingAgent,
\* closed
PhaseOrder == <<"None", "Intake", "Scheduling", "Closed">>

Phase(s) ==
    IF closed[s] THEN "Closed"
    ELSE IF agent[s] = "SchedulingAgent" THEN "Scheduling"
    ELSE IF agent[s] = "IntakeAgent" THEN "Intake"
    ELSE "None"

PhaseIndex(phase) == CHOOSE i \in 1..Len(PhaseOrder) : PhaseOrder[i] = phase

C19_DeclinedConfirmationChangesNothing ==
    [][\A s \in Sessions :
        (Intake_confirm_and_end(s, FALSE) \/ Scheduling_confirm_and_end(s, FALSE))
            => /\ UNCHANGED <<agent, closed, userdata, heap>>
               /\ last'.ret = ReadyToConfirm
               /\ ~last'.attempt.ran
               /\ last'.attempt.delivered = 0]_vars

\* a confirmation was declined in scheduling with fields of both phases
\* recorded
C19_Witness ==
    /\ last = Call("A", "confirm_and_end", ReadyToConfirm, NoAttempt)
    /\ Phase("A") = "Scheduling"
    /\ userdata["A"].patient_name /= None
    /\ Request("A").appointment_time /= None

\* C21: the physician of a request was accepted by record_physician or set
\* by the resolver, so a finalization attempt never fails to find that
\* physician in the roster.
C21_AcceptedPhysicianKnownToResolver ==
    \A s \in Sessions :
        (last.session = s /\ last.attempt.ran) => last.attempt.lookup /= "KeyError"

\* C22: a confirm_and_end(true) of IntakeAgent hands off only with name, date
\* of birth, insurance payer, insurance id, reason, address and phone all
\* set, and a confirm_and_end(true) of SchedulingAgent succeeds only with the
\* referral flag known, date and time set, and the physician set if the
\* flag is true.
C22_AdvanceOnlyFromCompleteRecord ==
    \A s \in Sessions :
        /\ (last.session = s /\ last.op = "confirm_and_end" /\ last.ret = Handoff)
                => all_info_collected(userdata[s])
        /\ Finalized(s, Goodbye) =>
                /\ Request(s).has_referral /= None
                /\ Request(s).appointment_date /= None
                /\ Request(s).appointment_time /= None
                /\ Request(s).has_referral = <<TRUE>> => Request(s).physician /= None

\* C23: a finalization attempt in which the resolver raised, or returned no
\* physician or no time, leaves every field of the patient record and of
\* the appointment request as it was before the call, leaves the session
\* open, sends nothing and emits no reschedule notice.
C23_FailedResolutionChangesNothing ==
    [][\A s \in Sessions :
        (/\ last' /= last
         /\ last'.session = s
         /\ last'.attempt.ran
         /\ Outcome(last'.attempt) \in {"NoAvailability", "LookupFailed"}) =>
            /\ UNCHANGED <<agent, closed, userdata, heap>>
            /\ last'.attempt.delivered = 0
            /\ last'.attempt.notice = "none"
            /\ last'.ret = Sorry]_vars

\* a recorded physician was not in the roster at finalization: the request
\* is as it was
C23_Witness ==
    /\ Finalized("A", Sorry)
    /\ last.attempt.lookup = "KeyError"
    /\ Request("A").physician = DrLee
    /\ Request("A").appointment_time = last.attempt.requested
    /\ Truthy(last.attempt.requested)

\* C24: with the referral flag false at confirmation, what the resolver
\* returns in a finalization attempt is what the scan of the whole roster
\* returns for the requested time, whatever physician the request holds.
C24_NoReferralScansWholeRoster ==
    \A s \in Sessions :
        (/\ last.session = s
         /\ last.attempt.ran
         /\ last.attempt.lookup = "returned"
         /\ Request(s).has_referral = <<FALSE>>) =>
            last.attempt.resolved =
                get_avaliability(physicians_csv, last.attempt.requested, None).ret

====
